---- MODULE Spec2Model ----
(***************************************************************************)
(* passclip: character-level Markov chain word generator.                  *)
(*                                                                         *)
(* Three entry points of the repository are modelled, one per scenario:    *)
(*   "MarkovChain"           src/src/passclip/markov_chain.py              *)
(*   "MarkovChainGenerator"  src/src/passclip/generator.py                 *)
(*   "main"                  src/src/passclip/main.py (generate)           *)
(*                                                                         *)
(* A Python str is a sequence of one-character strings.  An Optional is    *)
(* None (the empty tuple) or Some(v) (the one-element tuple).  A Counter   *)
(* is a function from characters to positive counts, a transition table a  *)
(* function from prefixes to Counters.                                     *)
(***************************************************************************)
EXTENDS Naturals, Sequences, FiniteSets, TLC

VARIABLES
    scenario,   \* which entry point this behaviour exercises
    mc,         \* the MarkovChain object: [wordlist, order, transition_table]
    mcg,        \* the MarkovChainGenerator object: None or Some([order, wordlist, transitions])
    result,     \* the last call: [op, arg, kind, value, prefix]
    built,      \* history: Some([wordlist, order]) the last successful MarkovChain build read
    main        \* main.generate: [pc, section, attempt, tries, word]

vars == <<scenario, mc, mcg, result, built, main>>

----------------------------------------------------------------------------
(* Bounds of the model. *)

MaxLines == 2       \* lines per word list file
MaxOrder == 5       \* orders 1..MaxOrder of a MarkovChainGenerator
MaxChainOrder == 2  \* orders 1..MaxChainOrder of a MarkovChain
MaxLength == 5      \* requested lengths 0..MaxLength

(* Constants of the program. *)

default_order == 3      \* MarkovChain.__init__(order=3)
main_order == 3         \* MarkovChainGenerator(wordlist, order=3)
section_length == 6
sections == 3
capitals_per_section == 1
number_per_section == 1
attempts_range == 11    \* for attempt in range(11)
max_attempts == 10      \* if attempt == 10
number_range == 10      \* secrets.randbelow(10)

----------------------------------------------------------------------------
(* Optional values. *)

None == <<>>
Some(v) == <<v>>
Get(o) == o[1]

(* Characters. str.isalpha is Unicode-aware: a non-ASCII letter passes it. *)

AsciiLower ==
    {"a","b","c","d","e","f","g","h","i","j","k","l","m",
     "n","o","p","q","r","s","t","u","v","w","x","y","z"}
AsciiUpper ==
    {"A","B","C","D","E","F","G","H","I","J","K","L","M",
     "N","O","P","Q","R","S","T","U","V","W","X","Y","Z"}
OtherLetters == {"é"}
StartToken == "^"

UpperToLower ==
    [c \in AsciiUpper |->
        CASE c = "A" -> "a" [] c = "B" -> "b" [] c = "C" -> "c" [] c = "D" -> "d"
          [] c = "E" -> "e" [] c = "F" -> "f" [] c = "G" -> "g" [] c = "H" -> "h"
          [] c = "I" -> "i" [] c = "J" -> "j" [] c = "K" -> "k" [] c = "L" -> "l"
          [] c = "M" -> "m" [] c = "N" -> "n" [] c = "O" -> "o" [] c = "P" -> "p"
          [] c = "Q" -> "q" [] c = "R" -> "r" [] c = "S" -> "s" [] c = "T" -> "t"
          [] c = "U" -> "u" [] c = "V" -> "v" [] c = "W" -> "w" [] c = "X" -> "x"
          [] c = "Y" -> "y" [] c = "Z" -> "z"]

isalpha_char(c) == c \in AsciiLower \cup AsciiUpper \cup OtherLetters

\* str.isalpha(): non-empty and every character alphabetic
isalpha(word) ==
    /\ Len(word) > 0
    /\ \A i \in 1..Len(word) : isalpha_char(word[i])

\* str.lower()
lower(word) ==
    [i \in 1..Len(word) |->
        IF word[i] \in AsciiUpper THEN UpperToLower[word[i]] ELSE word[i]]

\* str.upper() of one character
LowerToUpper == [c \in AsciiLower |-> CHOOSE u \in AsciiUpper : UpperToLower[u] = c]
upper(c) ==
    IF c \in AsciiLower THEN LowerToUpper[c]
    ELSE IF c = "é" THEN "É"
    ELSE c

\* str(n) of a number below 10
Digits == <<"0","1","2","3","4","5","6","7","8","9">>
str(n) == Digits[n + 1]

\* '^' * n
Repeat(c, n) == [i \in 1..n |-> c]

Range(s) == {s[i] : i \in 1..Len(s)}

\* an iteration order of a set (the code's results do not depend on which)
RECURSIVE SetToSeq(_)
SetToSeq(S) ==
    IF S = {} THEN <<>>
    ELSE LET x == CHOOSE y \in S : TRUE IN <<x>> \o SetToSeq(S \ {x})

----------------------------------------------------------------------------
(* Input word list files: None is a path that is no file, otherwise the    *)
(* lines read().splitlines() returns.                                      *)

Lines ==
    { <<>>,
      <<"a","1">>,
      <<"a","b","c">>,
      <<"A","b","c">>,
      <<"é">>,
      <<"a","p","p","l","e">>,
      <<"a","p","p","l","y">> }

\* the lines of the word lists a MarkovChain loads, any number of times
ChainLines ==
    { <<"a","1">>,
      <<"a","b","c">>,
      <<"A","b","c">>,
      <<"a","p","p","l","e">> }

\* the word list files main.py is run on: words as long as a section
MainFiles ==
    { None,
      Some(<< <<"a","1">> >>),
      Some(<< <<"a","p","p","l","e">> >>),
      Some(<< <<"a","a","a","a","a","a">> >>),
      Some(<< <<"a","a","a","a","a","a","b">> >>),
      Some(<< <<"a","a","a","a","a","a">>, <<"a","a","a","a","a","a","b">> >>),
      Some(<< <<"a","1">>, <<"a","p","p","l","e">>, <<"a","a","a","a","a","a","b">> >>) }

RECURSIVE SeqsUpTo(_, _)
SeqsUpTo(S, n) ==
    IF n = 0 THEN {<<>>}
    ELSE LET shorter == SeqsUpTo(S, n - 1)
         IN shorter \cup {Append(s, x) : s \in {t \in shorter : Len(t) = n - 1}, x \in S}

Files == {None} \cup {Some(f) : f \in SeqsUpTo(Lines, MaxLines)}
ChainFiles == {None} \cup {Some(f) : f \in SeqsUpTo(ChainLines, MaxLines)}
\* the orders of the specification, k >= 1
Orders == 1..MaxOrder
ChainOrders == 1..MaxChainOrder
Lengths == 0..MaxLength
\* the draws of secrets.randbelow in main.py
RandIndexes == 0..(section_length - 1)
RandNumbers == 0..(number_range - 1)

----------------------------------------------------------------------------
(* Results of calls. *)

OK == "ok"
FileNotFoundError == "FileNotFoundError"
WordlistNotLoaded == "ValueError: Wordlist is not loaded"
TableNotAvailable == "ValueError: Transition table is not available"
NoTransitions == "ValueError: No transitions found for prefix"
FailedNonRealWord == "ValueError: Failed to generate a non-real word"

NoResult == [op |-> "none", arg |-> None, kind |-> OK, value |-> None, prefix |-> None]
Result(op, arg, kind, value, prefix) ==
    [op |-> op, arg |-> arg, kind |-> kind, value |-> value, prefix |-> prefix]

----------------------------------------------------------------------------
(* Transition tables: defaultdict(Counter). *)

EmptyCounter == <<>>
EmptyTable == <<>>

\* mutant of WindowRange: range(len(word) - order - 1), the last transition lost
WindowRange_short(word, order) == 0..(Len(word) - order - 2)

\* range(len(word) - order), word the padded word: the indices i of the inner loop
WindowRange(word, order) == 0..(Len(word) - order - 1)

\* f"{'^' * order}{word}"
Padded(word, order) == Repeat(StartToken, order) \o word

\* word[i : i + order]
PrefixAt(word, order, i) == SubSeq(word, i + 1, i + order)

\* word[i + order]
NextCharAt(word, order, i) == word[i + order + 1]

\* The two nested loops "for word in wordlist: for i in range(...):
\* transitions[prefix][next_char] += 1" over the words in the order given.
\* Every iteration <<j, i>> adds one to the count of its (prefix, next_char);
\* a key exists once an iteration has touched it.
CountTransitions(words, order) ==
    LET iterations == UNION {{<<j, i>> : i \in WindowRange(Padded(words[j], order), order)}
                                : j \in 1..Len(words)}
        prefix(it) == PrefixAt(Padded(words[it[1]], order), order, it[2])
        next_char(it) == NextCharAt(Padded(words[it[1]], order), order, it[2])
    IN [p \in {prefix(it) : it \in iterations} |->
          [c \in {next_char(it) : it \in {x \in iterations : prefix(x) = p}} |->
              Cardinality({it \in iterations : prefix(it) = p /\ next_char(it) = c})]]

----------------------------------------------------------------------------
(* markov_chain.py: class MarkovChain. *)

\* load_wordlist: the cleaned set, lower-cased alphabetic lines
clean_wordlist(lines) == {lower(lines[i]) : i \in {j \in 1..Len(lines) : isalpha(lines[j])}}

load_wordlist(self, path) ==
    IF path = None
    THEN [self |-> self,
          result |-> Result("load_wordlist", path, FileNotFoundError, None, None)]
    ELSE [self |-> [self EXCEPT !.wordlist = Some(clean_wordlist(Get(path)))],
          result |-> Result("load_wordlist", path, OK, None, None)]

set_order(self, order) ==
    [self |-> [self EXCEPT !.order = order],
     result |-> Result("set_order", order, OK, None, None)]

\* "if not self.wordlist": None or the empty set
wordlist_missing(self) == self.wordlist = None \/ Get(self.wordlist) = {}

build_transition_table(self) ==
    IF wordlist_missing(self)
    THEN [self |-> self,
          result |-> Result("build_transition_table", None, WordlistNotLoaded, None, None)]
    ELSE [self |-> [self EXCEPT !.transition_table =
                        Some(CountTransitions(SetToSeq(Get(self.wordlist)), self.order))],
          result |-> Result("build_transition_table", None, OK, None, None)]

\* mutant of string_prefix: output_string[:self.order], the first characters
string_prefix_first(output_string, order) == SubSeq(output_string, 1, order)

\* output_string[-self.order:]
string_prefix(output_string, order) ==
    SubSeq(output_string, Len(output_string) - order + 1, Len(output_string))

\* self.transition_table[prefix] on a defaultdict: a missing key is inserted
string_lookup(table, prefix) ==
    IF prefix \in DOMAIN table THEN table ELSE (prefix :> EmptyCounter) @@ table

\* output_string[self.order:]
string_strip(output_string, order) == SubSeq(output_string, order + 1, Len(output_string))

\* the while loop of generate_string: every outcome the random draws allow,
\* each with the table the call leaves behind
RECURSIVE string_loop(_, _, _, _)
string_loop(table, order, length, output_string) ==
    IF ~(Len(output_string) < length + order)
    THEN {[kind |-> OK, value |-> string_strip(output_string, order),
           prefix |-> None, table |-> table]}
    ELSE LET prefix == string_prefix(output_string, order)
             looked == string_lookup(table, prefix)
             counter == looked[prefix]
             possible_chars == DOMAIN counter
         IN IF possible_chars = {}
            THEN {[kind |-> NoTransitions, value |-> output_string,
                   prefix |-> Some(prefix), table |-> looked]}
            ELSE UNION {string_loop(looked, order, length, Append(output_string, next_char))
                            : next_char \in {c \in possible_chars : counter[c] > 0}}

\* "if not self.transition_table": None or an empty dict
table_missing(self) == self.transition_table = None \/ Get(self.transition_table) = EmptyTable

generate_string(self, length) ==
    IF table_missing(self)
    THEN {[self |-> self,
           result |-> Result("generate_string", length, TableNotAvailable, None, None)]}
    ELSE {[self |-> [self EXCEPT !.transition_table = Some(out.table)],
           result |-> Result("generate_string", length, out.kind, out.value, out.prefix)]
            : out \in string_loop(Get(self.transition_table), self.order, length,
                                  Repeat(StartToken, self.order))}

----------------------------------------------------------------------------
(* generator.py: class MarkovChainGenerator. *)

\* list.remove(word): drops the first occurrence
RECURSIVE list_remove(_, _)
list_remove(wordlist, word) ==
    IF wordlist = <<>> THEN <<>>
    ELSE IF Head(wordlist) = word THEN Tail(wordlist)
    ELSE <<Head(wordlist)>> \o list_remove(Tail(wordlist), word)

\* "for word in wordlist: if not word.isalpha(): wordlist.remove(word)":
\* the list is mutated under the iterator, whose index i (0-based) goes on
RECURSIVE remove_invalid(_, _)
remove_invalid(wordlist, i) ==
    IF i >= Len(wordlist) THEN wordlist
    ELSE IF ~isalpha(wordlist[i + 1])
         THEN remove_invalid(list_remove(wordlist, wordlist[i + 1]), i + 1)
         ELSE remove_invalid(wordlist, i + 1)

\* [word.lower() for word in wordlist if word.isalpha()]
RECURSIVE lower_valid(_)
lower_valid(wordlist) ==
    IF wordlist = <<>> THEN <<>>
    ELSE IF isalpha(Head(wordlist))
         THEN <<lower(Head(wordlist))>> \o lower_valid(Tail(wordlist))
         ELSE lower_valid(Tail(wordlist))

_load_wordlist_from_file(lines) == lower_valid(remove_invalid(lines, 0))

_build_transitions_dict(wordlist, order) == CountTransitions(wordlist, order)

\* __init__: open() raises on a missing file; otherwise load, then build
MarkovChainGenerator(wordlist_path, order) ==
    IF wordlist_path = None
    THEN [self |-> None,
          result |-> Result("__init__", wordlist_path, FileNotFoundError, None, None)]
    ELSE LET wordlist == _load_wordlist_from_file(Get(wordlist_path))
         IN [self |-> Some([order |-> order,
                            wordlist |-> wordlist,
                            transitions |-> _build_transitions_dict(wordlist, order)]),
             result |-> Result("__init__", wordlist_path, OK, None, None)]

\* word[-self.order:]
word_prefix(word, order) == SubSeq(word, Len(word) - order + 1, Len(word))

\* self.transitions[prefix] on a defaultdict: a missing key is inserted
word_lookup(transitions, prefix) ==
    IF prefix \in DOMAIN transitions THEN transitions
    ELSE (prefix :> EmptyCounter) @@ transitions

\* list(counter.elements()): the characters of positive count, as a set
elements(counter) == {c \in DOMAIN counter : counter[c] > 0}

\* word[self.order:]
word_strip(word, order) == SubSeq(word, order + 1, Len(word))

\* mutant of word_loop: an empty choice set ends the loop and the word so far
\* is returned instead of the error being raised
RECURSIVE word_loop_silent(_, _, _, _)
word_loop_silent(transitions, order, length, word) ==
    IF ~(Len(word) < length + order)
    THEN {[kind |-> OK, value |-> word_strip(word, order),
           prefix |-> None, table |-> transitions]}
    ELSE LET prefix == word_prefix(word, order)
             looked == word_lookup(transitions, prefix)
             choices == elements(looked[prefix])
         IN IF choices = {}
            THEN {[kind |-> OK, value |-> word_strip(word, order),
                   prefix |-> None, table |-> looked]}
            ELSE UNION {word_loop_silent(looked, order, length, Append(word, next_char))
                            : next_char \in choices}

RECURSIVE word_loop(_, _, _, _)
word_loop(transitions, order, length, word) ==
    IF ~(Len(word) < length + order)
    THEN {[kind |-> OK, value |-> word_strip(word, order),
           prefix |-> None, table |-> transitions]}
    ELSE LET prefix == word_prefix(word, order)
             looked == word_lookup(transitions, prefix)
             choices == elements(looked[prefix])
         IN IF choices = {}
            THEN {[kind |-> NoTransitions, value |-> word,
                   prefix |-> Some(prefix), table |-> looked]}
            ELSE UNION {word_loop(looked, order, length, Append(word, next_char))
                            : next_char \in choices}

generate_word(self, length) ==
    {[self |-> [self EXCEPT !.transitions = out.table],
      result |-> Result("generate_word", length, out.kind, out.value, out.prefix)]
        : out \in word_loop(self.transitions, self.order, length,
                            Repeat(StartToken, self.order))}

----------------------------------------------------------------------------
(* main.py: generate(), the loop that produces the password sections. *)

\* mutant of attempts_exhausted: "if attempt == 9", one attempt short
attempts_exhausted_early(attempt) == attempt = max_attempts - 1

\* "if attempt == 10"
attempts_exhausted(attempt) == attempt = max_attempts

\* "word in mcg.wordlist"
is_real_word(word, wordlist) == word \in Range(wordlist)

\* word[:index] + c + word[index + 1:]
splice(word, index, c) ==
    SubSeq(word, 1, index) \o <<c>> \o SubSeq(word, index + 2, Len(word))

\* "for _ in range(capitals_per_section)": one letter upper-cased per round,
\* every outcome the draws allow
RECURSIVE add_capitals(_, _)
add_capitals(word, rounds) ==
    IF rounds = 0 THEN {word}
    ELSE UNION {add_capitals(splice(word, index, upper(word[index + 1])), rounds - 1)
                    : index \in RandIndexes}

\* "for _ in range(number_per_section)": one character replaced by a digit
RECURSIVE add_numbers(_, _)
add_numbers(word, rounds) ==
    IF rounds = 0 THEN {word}
    ELSE UNION {add_numbers(splice(word, index, str(number)), rounds - 1)
                    : index \in RandIndexes, number \in RandNumbers}

\* The state keeps generate()'s position (pc: start, loop, capitals, numbers,
\* done, raised) and its local "word"; "tries" is the
\* history of the words generate_word returned in the current section.  The
\* password, to which line 49 appends each section's word, is not kept.
MainIdle == [pc |-> "start", section |-> 0, attempt |-> 0, tries |-> <<>>, word |-> None]

\* mcg = MarkovChainGenerator(wordlist, order=3); password = ""
main_start(path) ==
    LET made == MarkovChainGenerator(path, main_order)
    IN IF made.result.kind # OK
       THEN [mcg |-> made.self, result |-> made.result,
             main |-> [MainIdle EXCEPT !.pc = "raised"]]
       ELSE [mcg |-> made.self, result |-> made.result,
             main |-> [MainIdle EXCEPT !.pc = "loop"]]

\* one iteration of "for attempt in range(11)": line 33 assigns the local
\* word; a non-member breaks out of the loop, to the capitals
main_attempt(m, self) ==
    LET tries == IF m.attempt = 0 THEN <<>> ELSE m.tries
    IN IF attempts_exhausted(m.attempt)
       THEN {[mcg |-> Some(self),
              result |-> Result("generate", None, FailedNonRealWord, None, None),
              main |-> [m EXCEPT !.pc = "raised"]]}
       ELSE UNION {LET word == out.result.value
                   IN IF out.result.kind # OK
                      THEN {[mcg |-> Some(out.self), result |-> out.result,
                             main |-> [m EXCEPT !.pc = "raised", !.tries = tries]]}
                      ELSE IF is_real_word(word, out.self.wordlist)
                      THEN {[mcg |-> Some(out.self), result |-> out.result,
                             main |-> [m EXCEPT !.attempt = m.attempt + 1,
                                                !.tries = Append(tries, word),
                                                !.word = Some(word)]]}
                      ELSE {[mcg |-> Some(out.self), result |-> out.result,
                             main |-> [m EXCEPT !.pc = "capitals",
                                                !.tries = Append(tries, word),
                                                !.word = Some(word)]]}
                      : out \in generate_word(self, section_length)}

\* lines 38-41: the capitals are added to the local word
main_capitals(m) ==
    {[m EXCEPT !.pc = "numbers", !.word = Some(word)]
        : word \in add_capitals(Get(m.word), capitals_per_section)}

\* lines 43-49: the numbers are added to the local word, which the password
\* receives; then the next section, or the end of generate() after the last
main_numbers(m) ==
    {[m EXCEPT !.pc = IF m.section + 1 < sections THEN "loop" ELSE "done",
               !.section = m.section + 1,
               !.attempt = 0,
               !.word = Some(word)]
        : word \in add_numbers(Get(m.word), number_per_section)}

----------------------------------------------------------------------------
(* The state machine. *)

Scenarios == {"MarkovChain", "MarkovChainGenerator", "main"}

\* MarkovChain.__init__(order): wordlist and transition_table are None
MarkovChain(order) == [wordlist |-> None, order |-> order, transition_table |-> None]

Init ==
    /\ scenario \in Scenarios
    /\ \E order \in ChainOrders \cup {default_order} :
          /\ mc = MarkovChain(order)
          /\ scenario # "MarkovChain" => order = default_order
    /\ mcg = None
    /\ result = NoResult
    /\ built = None
    /\ main = MainIdle

\* load_wordlist may be called at any time and replaces the word list; the
\* transition table, if any, stays as it is.
LoadWordlist ==
    /\ scenario = "MarkovChain"
    /\ \E path \in ChainFiles :
          LET r == load_wordlist(mc, path)
          IN /\ mc' = r.self
             /\ result' = r.result
    /\ UNCHANGED <<scenario, mcg, built, main>>

\* set_order may be called at any time; the transition table stays as it is.
SetOrder ==
    /\ scenario = "MarkovChain"
    /\ \E order \in ChainOrders :
          LET r == set_order(mc, order)
          IN /\ mc' = r.self
             /\ result' = r.result
    /\ UNCHANGED <<scenario, mcg, built, main>>

BuildTransitionTable ==
    /\ scenario = "MarkovChain"
    /\ LET r == build_transition_table(mc)
       IN /\ mc' = r.self
          /\ result' = r.result
          /\ built' = IF r.result.kind = OK
                      THEN Some([wordlist |-> Get(mc.wordlist), order |-> mc.order])
                      ELSE built
    /\ UNCHANGED <<scenario, mcg, main>>

GenerateString ==
    /\ scenario = "MarkovChain"
    /\ \E length \in Lengths :
          \E r \in generate_string(mc, length) :
             /\ mc' = r.self
             /\ result' = r.result
    /\ UNCHANGED <<scenario, mcg, built, main>>

Construct ==
    /\ scenario = "MarkovChainGenerator"
    /\ mcg = None
    /\ \E path \in Files, order \in Orders :
          LET r == MarkovChainGenerator(path, order)
          IN /\ mcg' = r.self
             /\ result' = r.result
    /\ UNCHANGED <<scenario, mc, built, main>>

GenerateWord ==
    /\ scenario = "MarkovChainGenerator"
    /\ mcg # None
    /\ \E length \in Lengths :
          \E r \in generate_word(Get(mcg), length) :
             /\ mcg' = Some(r.self)
             /\ result' = r.result
    /\ UNCHANGED <<scenario, mc, built, main>>

MainStart ==
    /\ scenario = "main"
    /\ main.pc = "start"
    /\ \E path \in MainFiles :
          LET r == main_start(path)
          IN /\ mcg' = r.mcg
             /\ result' = r.result
             /\ main' = r.main
    /\ UNCHANGED <<scenario, mc, built>>

MainAttempt ==
    /\ scenario = "main"
    /\ main.pc = "loop"
    /\ main.attempt < attempts_range
    /\ \E r \in main_attempt(main, Get(mcg)) :
          /\ mcg' = r.mcg
          /\ result' = r.result
          /\ main' = r.main
    /\ UNCHANGED <<scenario, mc, built>>

MainCapitals ==
    /\ scenario = "main"
    /\ main.pc = "capitals"
    /\ main' \in main_capitals(main)
    /\ UNCHANGED <<scenario, mc, mcg, result, built>>

MainNumbers ==
    /\ scenario = "main"
    /\ main.pc = "numbers"
    /\ main' \in main_numbers(main)
    /\ UNCHANGED <<scenario, mc, mcg, result, built>>

Next ==
    \/ LoadWordlist
    \/ SetOrder
    \/ BuildTransitionTable
    \/ GenerateString
    \/ Construct
    \/ GenerateWord
    \/ MainStart
    \/ MainAttempt
    \/ MainCapitals
    \/ MainNumbers

Spec == Init /\ [][Next]_vars

----------------------------------------------------------------------------
(* Vocabulary of the properties. *)

IsGenerate == result.op \in {"generate_string", "generate_word"}

\* the table the last generate call ran on, and the order it ran with
GenOrder == IF result.op = "generate_string" THEN mc.order ELSE Get(mcg).order
GenTable == IF result.op = "generate_string" THEN Get(mc.transition_table) ELSE Get(mcg).transitions

\* the training data of that table: the words and the order it was built from
GenWords == IF result.op = "generate_string" THEN Get(built).wordlist ELSE Range(Get(mcg).wordlist)
GenBuiltOrder == IF result.op = "generate_string" THEN Get(built).order ELSE Get(mcg).order

\* the MarkovChain table was built from the current word list with the current order
Fresh ==
    /\ mc.wordlist # None
    /\ mc.transition_table # None
    /\ built = Some([wordlist |-> Get(mc.wordlist), order |-> mc.order])

\* the windows of k+1 consecutive characters of the padded training words
TrainingWindows(words, k) ==
    UNION {{SubSeq(Padded(w, k), i, i + k) : i \in 1..Len(w)} : w \in words}

\* the training set the loader is specified to produce from the lines of a file
ExpectedTrainingSet(lines) == {lower(l) : l \in {x \in Range(lines) : isalpha(x)}}

\* the number of pairs (w, i), w a distinct training word, whose window is p then c
Observations(words, k, p, c) ==
    Cardinality(UNION {{<<w, i>> : i \in {j \in 0..(Len(w) - 1) :
                                            /\ SubSeq(Padded(w, k), j + 1, j + k) = p
                                            /\ Padded(w, k)[j + k + 1] = c}}
                          : w \in words})

Apple == <<"a","p","p","l","e">>
Apply == <<"a","p","p","l","y">>
Appl == <<"a","p","p","l">>

----------------------------------------------------------------------------
\* C1: whenever generate returns, the string has exactly the requested number
\* of characters, each a lowercase letter a-z, none the start marker.
C1_LowercaseOutput ==
    (IsGenerate /\ result.kind = OK) =>
        /\ Len(result.value) = result.arg
        /\ \A i \in 1..Len(result.value) :
              /\ result.value[i] \in AsciiLower
              /\ result.value[i] # StartToken

----------------------------------------------------------------------------
\* C2: in the loop that produces one section, the "failed to generate a
\* non-real word" error is raised if and only if each of the 10 attempts
\* returned a member of the word list; the first non-member ends the loop and
\* is the section's word, to which a capital and a digit are then added;
\* generate_word is called at most 10 times a section.
\* the words the capitals and the numbers can make of a word
C2_Decorated(word) ==
    UNION {add_numbers(w, number_per_section) : w \in add_capitals(word, capitals_per_section)}

C2_Members(tries) == \A i \in 1..Len(tries) : tries[i] \in Range(Get(mcg).wordlist)

C2_State ==
    scenario = "main" /\ main.pc # "start" =>
        /\ main.attempt <= max_attempts
        /\ Len(main.tries) <= max_attempts
        /\ (main.pc = "raised" /\ result.kind = FailedNonRealWord) =>
              /\ Len(main.tries) = max_attempts
              /\ C2_Members(main.tries)
        /\ (main.pc = "loop" /\ main.attempt > 0) =>
              /\ Len(main.tries) = main.attempt
              /\ C2_Members(main.tries)
              /\ main.word = Some(main.tries[Len(main.tries)])
        /\ (main.pc \in {"capitals", "numbers"}
              \/ (main.pc \in {"loop", "done"} /\ main.attempt = 0 /\ main.section > 0)) =>
              /\ main.tries[Len(main.tries)] \notin Range(Get(mcg).wordlist)
              /\ C2_Members(SubSeq(main.tries, 1, Len(main.tries) - 1))
              /\ main.pc = "capitals" => main.word = Some(main.tries[Len(main.tries)])
              /\ main.pc = "numbers" =>
                    Get(main.word) \in add_capitals(main.tries[Len(main.tries)],
                                                    capitals_per_section)
              /\ main.pc \in {"loop", "done"} =>
                    Get(main.word) \in C2_Decorated(main.tries[Len(main.tries)])

C2_Step ==
    (scenario = "main" /\ main.pc = "loop" /\ Len(main.tries) = max_attempts
        /\ main.attempt > 0 /\ C2_Members(main.tries)) =>
            /\ main'.pc = "raised"
            /\ result'.kind = FailedNonRealWord
            /\ main'.tries = main.tries

C2_BoundedRetry == [](C2_State) /\ [][C2_Step]_vars

C2_Witness ==
    /\ main.pc = "raised"
    /\ result.kind = FailedNonRealWord
    /\ Len(main.tries) = max_attempts

----------------------------------------------------------------------------
\* C3: a generate that returns with order k never invents a transition absent
\* from the training data, the words its table was built from: every window
\* of k+1 characters of the padded output is a window of some padded training
\* word.  With a table built from apple and apply with order 2, an output of
\* length 5 generated with order 2 starts "appl" and ends in "e" or "y".
C3_NoInventedTransition ==
    (IsGenerate /\ result.kind = OK) =>
        LET k == GenOrder
            out == Padded(result.value, k)
        IN /\ \A i \in 1..Len(result.value) :
                 SubSeq(out, i, i + k) \in TrainingWindows(GenWords, k)
           /\ (GenWords = {Apple, Apply} /\ GenBuiltOrder = 2 /\ k = 2
                 /\ result.arg = 5) =>
                 /\ SubSeq(result.value, 1, 4) = Appl
                 /\ result.value[5] \in {"e", "y"}

C3_Witness ==
    /\ IsGenerate
    /\ result.kind = OK
    /\ result.arg = 5
    /\ result.value \notin GenWords

----------------------------------------------------------------------------
\* C4: generate fails with the "no transitions" error exactly at the first
\* step whose prefix (the last k characters of the buffer) has no entry or an
\* empty choice set, naming that prefix; every step before it appended a
\* character the table offers for its prefix.  With order 5 and only 3-letter
\* words it returns for lengths up to 3 and fails on the 4th draw beyond.
C4_StepTaken(table, buffer, k, s) ==
    LET p == SubSeq(buffer, s + 1, s + k)
    IN /\ p \in DOMAIN table
       /\ DOMAIN table[p] # {}
       /\ buffer[s + k + 1] \in DOMAIN table[p]

C4_Exhausted(table, p) == p \notin DOMAIN table \/ DOMAIN table[p] = {}

C4_ExhaustedTransitions ==
    (IsGenerate /\ result.kind \in {OK, NoTransitions}) =>
        LET k == GenOrder
            n == result.arg
            buffer == IF result.kind = OK THEN Padded(result.value, k) ELSE result.value
            drawn == Len(buffer) - k
        IN /\ \A s \in 0..(drawn - 1) : C4_StepTaken(GenTable, buffer, k, s)
           /\ result.kind = OK => drawn = n
           /\ result.kind = NoTransitions =>
                 /\ drawn < n
                 /\ result.prefix = Some(SubSeq(buffer, drawn + 1, drawn + k))
                 /\ C4_Exhausted(GenTable, Get(result.prefix))
           /\ (k = 5 /\ GenBuiltOrder = 5 /\ GenWords # {}
                 /\ \A w \in GenWords : Len(w) = 3) =>
                 /\ n <= 3 => result.kind = OK
                 /\ n > 3 => (result.kind = NoTransitions /\ drawn = 3)

C4_Witness ==
    /\ IsGenerate
    /\ result.kind = NoTransitions
    /\ GenOrder = 5
    /\ GenBuiltOrder = 5
    /\ GenWords = {<<"a","b","c">>}
    /\ result.arg = 5
    /\ result.prefix = Some(<<"^","^","a","b","c">>)

----------------------------------------------------------------------------
\* C5: for a non-empty training set and order k >= 1 the build succeeds, and
\* every prefix of a padded training word (a window of k characters followed
\* by a next character) has a non-empty choice set with positive weights in
\* the table built from those words with that order.
C5_Covers(table, words, k) ==
    \A w \in words : \A i \in 1..Len(w) :
        LET p == SubSeq(Padded(w, k), i, i + k - 1)
            c == Padded(w, k)[i + k]
        IN /\ p \in DOMAIN table
           /\ c \in DOMAIN table[p]
           /\ table[p][c] > 0

C5_ObservedPrefixes ==
    /\ (result.op = "build_transition_table" /\ mc.wordlist # None
            /\ Get(mc.wordlist) # {}) =>
          /\ result.kind = OK
          /\ Fresh
    /\ mc.transition_table # None =>
          C5_Covers(Get(mc.transition_table), Get(built).wordlist, Get(built).order)
    /\ mcg # None =>
          C5_Covers(Get(mcg).transitions, Range(Get(mcg).wordlist), Get(mcg).order)

C5_Witness ==
    /\ result.op = "build_transition_table"
    /\ result.kind = OK
    /\ mc.order = 2
    /\ Get(mc.wordlist) = {<<"a","b","c">>, Apple}
    /\ DOMAIN Get(mc.transition_table)[<<"^","a">>] = {"b", "p"}

----------------------------------------------------------------------------
\* C6: building fails with the "word list is not loaded" error when no
\* training set is loaded or the loaded one is empty, and then produces no
\* table: no object holds a table derived from an empty training set, and no
\* generate returns on one.
C6_EmptyTrainingSet ==
    /\ (result.op = "build_transition_table" /\ wordlist_missing(mc)) =>
          result.kind = WordlistNotLoaded
    /\ mc.transition_table # None => built # None /\ Get(built).wordlist # {}
    /\ mcg # None => Get(mcg).wordlist # <<>>
    /\ (IsGenerate /\ result.kind = OK) => GenWords # {}

----------------------------------------------------------------------------
\* C7: the loader yields exactly the set of the lower-cased alphabetic lines:
\* nothing else enters, no valid line is dropped, repeated words collapse to
\* one entry, and the order of the lines does not matter.
C7_Reversed(lines) == [i \in 1..Len(lines) |-> lines[Len(lines) + 1 - i]]

C7_LoaderSet ==
    /\ (result.op = "load_wordlist" /\ result.kind = OK) =>
          Get(mc.wordlist) = ExpectedTrainingSet(Get(result.arg))
    /\ (result.op = "__init__" /\ result.kind = OK) =>
          LET lines == Get(result.arg)
              wordlist == Get(mcg).wordlist
          IN /\ Range(wordlist) = ExpectedTrainingSet(lines)
             /\ Len(wordlist) = Cardinality(Range(wordlist))
             /\ wordlist = _load_wordlist_from_file(C7_Reversed(lines))

----------------------------------------------------------------------------
\* C8: every prefix key of a present MarkovChain table has length equal to
\* the object's current order.
C8_KeyLength ==
    mc.transition_table # None =>
        \A p \in DOMAIN Get(mc.transition_table) : Len(p) = mc.order

----------------------------------------------------------------------------
\* C9: a generate call, returning or failing, leaves the transition table as
\* it was, and no table holds a prefix with an empty choice set.
C9_Table(o) == IF o = None THEN None ELSE Some(Get(o).transitions)

C9_TableUnchanged ==
    [][ /\ result'.op \in {"generate_string", "generate_word"} =>
              /\ mc'.transition_table = mc.transition_table
              /\ C9_Table(mcg') = C9_Table(mcg)
        /\ mc'.transition_table # None =>
              \A p \in DOMAIN Get(mc'.transition_table) :
                  DOMAIN Get(mc'.transition_table)[p] # {}
        /\ mcg' # None =>
              \A p \in DOMAIN Get(mcg').transitions :
                  DOMAIN Get(mcg').transitions[p] # {} ]_vars

----------------------------------------------------------------------------
\* C10: after the build the weight of (p, c) is the number of pairs (w, i),
\* w a distinct training word, whose padded window at i is p followed by c;
\* so the weights sum to the number of characters of the distinct words.
RECURSIVE C10_Sum(_, _)
C10_Sum(f, S) ==
    IF S = {} THEN 0
    ELSE LET x == CHOOSE y \in S : TRUE IN f[x] + C10_Sum(f, S \ {x})

C10_Counts(table, words, k) ==
    /\ \A p \in DOMAIN table : \A c \in DOMAIN table[p] :
          table[p][c] = Observations(words, k, p, c)
    /\ C5_Covers(table, words, k)
    /\ C10_Sum([p \in DOMAIN table |-> C10_Sum(table[p], DOMAIN table[p])], DOMAIN table)
          = C10_Sum([w \in words |-> Len(w)], words)

C10_Weights ==
    /\ (result.op = "build_transition_table" /\ result.kind = OK) =>
          C10_Counts(Get(mc.transition_table), Get(mc.wordlist), mc.order)
    /\ (result.op = "__init__" /\ result.kind = OK) =>
          C10_Counts(Get(mcg).transitions, Range(Get(mcg).wordlist), Get(mcg).order)

====
